---- MODULE Spec2Model ----
(***************************************************************************)
(* A model of the recursive-descent parser of src/src/parser.rs.           *)
(*                                                                         *)
(* The parser owns a token iterator (lexer) and a one-token lookahead      *)
(* (current).  parse() and procedure_call() call each other recursively;   *)
(* the recursion is modelled by an explicit stack of frames, one action    *)
(* per match arm of the source.  A client calls parse() repeatedly on the  *)
(* same parser.                                                            *)
(***************************************************************************)
EXTENDS Integers, Sequences, FiniteSets, TLC

(* ---------------------------- bounds ----------------------------------- *)
MaxLen == 6      \* longest token stream handed to Parser::new
MaxCalls == 3    \* top-level parse() calls the client makes on one parser
MaxLiveLen == 5  \* longest token stream in the specification with fairness

(* ---------------------------- tokens ----------------------------------- *)
\* Token::Number(a), Token::Identifier(a), Token::LeftParen,
\* Token::RightParen, and one representative of the variants that only the
\* `_` arm of parse matches.
Tok(k, a) == [kind |-> k, text |-> a]

LeftParen == Tok("LeftParen", "")

RightParen == Tok("RightParen", "")

OtherToken == Tok("Other", "'")

TokenSet == {Tok("Number", "1"), Tok("Identifier", "+"), LeftParen, RightParen, OtherToken}

\* Option<Token>::None, the value of `current` once the lexer is exhausted.
NoToken == Tok("None", "")

(* -------------------------- expressions -------------------------------- *)
Number(a) == [kind |-> "Number", text |-> a]

Identifier(a) == [kind |-> "Identifier", text |-> a]

ProcudureCall(op, ps) == [kind |-> "ProcudureCall", operator |-> op, params |-> ps]

(* ---------------------------- results ---------------------------------- *)
\* Result<Option<Box<Expression>>>
OkSome(e) == [tag |-> "OkSome", expr |-> e]

OkNone == [tag |-> "OkNone"]

SyntaxError(msg) == [tag |-> "Err", error |-> msg]

Unmatched == SyntaxError("Unmatched Parentheses!")

\* No call has returned into the running frame.
NoRet == [tag |-> "NoRet"]

(* ----------------------------- state ----------------------------------- *)
VARIABLES
    tokens,    \* the whole stream the lexer was created over (never changes)
    lexer,     \* Parser.lexer: the tokens not yet pulled from the iterator
    current,   \* Parser.current: the lookahead, NoToken when exhausted
    stack,     \* active frames of parse / procedure_call, innermost first
    ret,       \* value a callee has just returned to the innermost frame
    results,   \* what the top-level parse() calls have returned, in order
    returned,  \* every return of parse / procedure_call so far, at any depth
    built,     \* every ProcudureCall node constructed so far, with its region
    lookaheads \* every value lexer.next() has put into current, in order

vars == <<tokens, lexer, current, stack, ret, results, returned, built, lookaheads>>

\* Number of tokens pulled from the lexer so far (Parser::new pulls the first).
Polled == Len(tokens) - Len(lexer)

\* Number of tokens the parser has advanced past.
Consumed == IF current = NoToken THEN Polled ELSE Polled - 1

(* ----------------------------- frames ---------------------------------- *)
\* start: the number of tokens consumed when the frame was entered;
\* mark: the number consumed at the head of its latest loop iteration.
ParseFrame(n) == [fn |-> "parse", pc |-> "match", operator |-> <<>>, params |-> <<>>, start |-> n, mark |-> n]

CallFrame(n) == [fn |-> "procedure_call", pc |-> "advance", operator |-> <<>>, params |-> <<>>, start |-> n, mark |-> n]

Top == Head(stack)

Running(f, p) == stack # <<>> /\ Top.fn = f /\ Top.pc = p

(* ------------------------- pure helpers -------------------------------- *)
\* self.lexer.next()
LexerNext(lx) == IF lx = <<>> THEN NoToken ELSE Head(lx)

LexerRest(lx) == IF lx = <<>> THEN <<>> ELSE Tail(lx)

\* ParseArm with RightParen falling into the `_` arm.
ParseArm_CloserIsNone(cur) ==
    CASE cur = NoToken -> "none"
      [] cur.kind = "Number" -> "number"
      [] cur.kind = "Identifier" -> "identifier"
      [] cur.kind = "LeftParen" -> "call"
      [] OTHER -> "none"

\* ParseArm with the `_` arm raising the error.
ParseArm_OtherIsError(cur) ==
    CASE cur = NoToken -> "none"
      [] cur.kind = "Number" -> "number"
      [] cur.kind = "Identifier" -> "identifier"
      [] cur.kind = "LeftParen" -> "call"
      [] OTHER -> "error"

\* ParseArm with the empty lookahead raising the error.
ParseArm_EofIsError(cur) ==
    CASE cur = NoToken -> "error"
      [] cur.kind = "Number" -> "number"
      [] cur.kind = "Identifier" -> "identifier"
      [] cur.kind = "LeftParen" -> "call"
      [] cur.kind = "RightParen" -> "error"
      [] OTHER -> "none"

\* The arm of `match self.current.clone()` in parse.
ParseArm(cur) ==
    CASE cur = NoToken -> "none"
      [] cur.kind = "Number" -> "number"
      [] cur.kind = "Identifier" -> "identifier"
      [] cur.kind = "LeftParen" -> "call"
      [] cur.kind = "RightParen" -> "error"
      [] OTHER -> "none"

\* LoopArm with the end of the stream closing the list.
LoopArm_EofCloses(cur) ==
    CASE cur = RightParen -> "close"
      [] cur = NoToken -> "close"
      [] OTHER -> "operand"

\* LoopArm without the RightParen arm.
LoopArm_NoClose(cur) ==
    CASE cur = NoToken -> "eof"
      [] OTHER -> "operand"

\* The arm of `match &self.current` at the head of the operand loop.
LoopArm(cur) ==
    CASE cur = RightParen -> "close"
      [] cur = NoToken -> "eof"
      [] OTHER -> "operand"

\* OperatorArm without the `?`: an error counts as no operator.
OperatorArm_ErrIsNone(r) ==
    CASE r.tag = "Err" -> "none"
      [] r.tag = "OkNone" -> "none"
      [] OTHER -> "loop"

\* `match self.parse()?` on the operator: what procedure_call does with it.
OperatorArm(r) ==
    CASE r.tag = "Err" -> "propagate"
      [] r.tag = "OkNone" -> "none"
      [] OTHER -> "loop"

\* OperandArm treating a missing operand as the operator arm does.
OperandArm_NoneIsNone(r) ==
    CASE r.tag = "Err" -> "propagate"
      [] r.tag = "OkNone" -> "propagate"
      [] OTHER -> "push"

\* `match self.parse()?` on an operand.
OperandArm(r) ==
    CASE r.tag = "Err" -> "propagate"
      [] r.tag = "OkNone" -> "error"
      [] OTHER -> "push"

(* ------------------------- state updates ------------------------------- *)
\* advance pulling two tokens and keeping the second.
advance_Skip ==
    /\ current' = LexerNext(LexerRest(lexer))
    /\ lexer' = LexerRest(LexerRest(lexer))
    /\ lookaheads' = Append(lookaheads, LexerNext(LexerRest(lexer)))

\* Parser::advance
advance ==
    /\ current' = LexerNext(lexer)
    /\ lexer' = LexerRest(lexer)
    /\ lookaheads' = Append(lookaheads, LexerNext(lexer))

\* The record of one return: which tokens the call consumed and what it gave.
Outcome(f, n, v, cur, lx) ==
    [fn |-> f, val |-> v, start |-> n,
     end |-> IF cur = NoToken THEN Len(tokens) - Len(lx) ELSE Len(tokens) - Len(lx) - 1,
     endCur |-> cur, depth |-> Len(stack)]

\* A frame returns v to its caller; the outermost frame returns to the client.
Return(v) ==
    /\ returned' = returned \cup {Outcome(Top.fn, Top.start, v, current', lexer')}
    /\ IF Len(stack) = 1
       THEN /\ stack' = <<>>
            /\ ret' = NoRet
            /\ results' = Append(results, Outcome(Top.fn, Top.start, v, current', lexer'))
       ELSE /\ stack' = Tail(stack)
            /\ ret' = v
            /\ UNCHANGED results

\* Parser::generate
generate(ast) ==
    /\ advance
    /\ Return(OkSome(ast))

(* ----------------------------- Init ------------------------------------ *)
TokenStreams == UNION {[1..n -> TokenSet] : n \in 0..MaxLen}

\* Parser::new pulls the first token into the lookahead.
Init ==
    /\ tokens \in TokenStreams
    /\ current = LexerNext(tokens)
    /\ lexer = LexerRest(tokens)
    /\ stack = <<>>
    /\ ret = NoRet
    /\ results = <<>>
    /\ returned = {}
    /\ built = {}
    /\ lookaheads = <<LexerNext(tokens)>>

(* ---------------------------- actions ---------------------------------- *)
\* The client calls parser.parse().
CallParse ==
    /\ stack = <<>>
    /\ Len(results) < MaxCalls
    /\ stack' = <<ParseFrame(Consumed)>>
    /\ UNCHANGED <<tokens, lexer, current, lookaheads, ret, results, returned, built>>

\* Token::Number(a) => self.generate(Box::new(Expression::Number(a)))
ParseNumber ==
    /\ Running("parse", "match")
    /\ ParseArm(current) = "number"
    /\ generate(Number(current.text))
    /\ UNCHANGED <<tokens, built>>

\* Token::Identifier(a) => self.generate(Box::new(Expression::Identifier(a)))
ParseIdentifier ==
    /\ Running("parse", "match")
    /\ ParseArm(current) = "identifier"
    /\ generate(Identifier(current.text))
    /\ UNCHANGED <<tokens, built>>

\* Token::LeftParen => self.procedure_call()
ParseLeftParen ==
    /\ Running("parse", "match")
    /\ ParseArm(current) = "call"
    /\ stack' = <<CallFrame(Consumed)>> \o <<[Top EXCEPT !.pc = "call"]>> \o Tail(stack)
    /\ UNCHANGED <<tokens, lexer, current, lookaheads, ret, results, returned, built>>

\* ... and parse returns whatever procedure_call returned.
ParseCallReturn ==
    /\ Running("parse", "call")
    /\ ret # NoRet
    /\ UNCHANGED <<lexer, current, lookaheads>>
    /\ Return(ret)
    /\ UNCHANGED <<tokens, built>>

\* ParseRightParen stepping over the RightParen before it fails.
ParseRightParen_Advance ==
    /\ Running("parse", "match")
    /\ ParseArm(current) = "error"
    /\ advance
    /\ Return(Unmatched)
    /\ UNCHANGED <<tokens, built>>

\* Token::RightParen => syntax_error!("Unmatched Parentheses!")
ParseRightParen ==
    /\ Running("parse", "match")
    /\ ParseArm(current) = "error"
    /\ UNCHANGED <<lexer, current, lookaheads>>
    /\ Return(Unmatched)
    /\ UNCHANGED <<tokens, built>>

\* ParseNone advancing before it returns.
ParseNone_Advance ==
    /\ Running("parse", "match")
    /\ ParseArm(current) = "none"
    /\ advance
    /\ Return(OkNone)
    /\ UNCHANGED <<tokens, built>>

\* _ => Ok(None)  and  None => Ok(None)
ParseNone ==
    /\ Running("parse", "match")
    /\ ParseArm(current) = "none"
    /\ UNCHANGED <<lexer, current, lookaheads>>
    /\ Return(OkNone)
    /\ UNCHANGED <<tokens, built>>

\* self.advance(); match self.parse()? { ...   (the call of parse)
CallOperator ==
    /\ Running("procedure_call", "advance")
    /\ advance
    /\ stack' = <<ParseFrame(Top.start + 1)>> \o <<[Top EXCEPT !.pc = "operator"]>> \o Tail(stack)
    /\ UNCHANGED <<tokens, ret, results, returned, built>>

\* `?` on the operator: the error leaves procedure_call at once.
OperatorErr ==
    /\ Running("procedure_call", "operator")
    /\ ret # NoRet
    /\ OperatorArm(ret) = "propagate"
    /\ UNCHANGED <<lexer, current, lookaheads>>
    /\ Return(ret)
    /\ UNCHANGED <<tokens, built>>

\* OperatorNone raising the error the operand arm raises.
OperatorNone_AsError ==
    /\ Running("procedure_call", "operator")
    /\ ret # NoRet
    /\ OperatorArm(ret) = "none"
    /\ UNCHANGED <<lexer, current, lookaheads>>
    /\ Return(Unmatched)
    /\ UNCHANGED <<tokens, built>>

\* None => Ok(None)
OperatorNone ==
    /\ Running("procedure_call", "operator")
    /\ ret # NoRet
    /\ OperatorArm(ret) = "none"
    /\ UNCHANGED <<lexer, current, lookaheads>>
    /\ Return(OkNone)
    /\ UNCHANGED <<tokens, built>>

\* Some(operator) => { let mut params = vec![]; loop { ...
OperatorSome ==
    /\ Running("procedure_call", "operator")
    /\ ret # NoRet
    /\ OperatorArm(ret) = "loop"
    /\ stack' = <<[Top EXCEPT !.pc = "loop", !.operator = <<ret.expr>>, !.params = <<>>]>> \o Tail(stack)
    /\ ret' = NoRet
    /\ UNCHANGED <<tokens, lexer, current, lookaheads, results, returned, built>>

\* LoopClose returning the node without advancing past the RightParen.
LoopClose_NoAdvance ==
    /\ Running("procedure_call", "loop")
    /\ LoopArm(current) = "close"
    /\ UNCHANGED <<lexer, current, lookaheads>>
    /\ Return(OkSome(ProcudureCall(Top.operator[1], Top.params)))
    /\ built' = built \cup {[node |-> ProcudureCall(Top.operator[1], Top.params),
                             from |-> Top.start + 1, to |-> Polled]}
    /\ UNCHANGED tokens

\* Some(Token::RightParen) => return self.generate(ProcudureCall(operator, params))
LoopClose ==
    /\ Running("procedure_call", "loop")
    /\ LoopArm(current) = "close"
    /\ generate(ProcudureCall(Top.operator[1], Top.params))
    /\ built' = built \cup {[node |-> ProcudureCall(Top.operator[1], Top.params),
                             from |-> Top.start + 1, to |-> Polled]}
    /\ UNCHANGED tokens

\* None => syntax_error!("Unmatched Parentheses!")
LoopEof ==
    /\ Running("procedure_call", "loop")
    /\ LoopArm(current) = "eof"
    /\ UNCHANGED <<lexer, current, lookaheads>>
    /\ Return(Unmatched)
    /\ UNCHANGED <<tokens, built>>

\* _ => params.push(match self.parse()? { ...   (the call of parse)
CallOperand ==
    /\ Running("procedure_call", "loop")
    /\ LoopArm(current) = "operand"
    /\ stack' = <<ParseFrame(Consumed)>> \o <<[Top EXCEPT !.pc = "operand", !.mark = Consumed]>> \o Tail(stack)
    /\ UNCHANGED <<tokens, lexer, current, lookaheads, ret, results, returned, built>>

\* `?` on an operand: the error leaves procedure_call at once.
OperandErr ==
    /\ Running("procedure_call", "operand")
    /\ ret # NoRet
    /\ OperandArm(ret) = "propagate"
    /\ UNCHANGED <<lexer, current, lookaheads>>
    /\ Return(ret)
    /\ UNCHANGED <<tokens, built>>

\* OperandNone going round the loop again instead of failing.
OperandNone_Skip ==
    /\ Running("procedure_call", "operand")
    /\ ret # NoRet
    /\ OperandArm(ret) = "error"
    /\ stack' = <<[Top EXCEPT !.pc = "loop"]>> \o Tail(stack)
    /\ ret' = NoRet
    /\ UNCHANGED <<tokens, lexer, current, lookaheads, results, returned, built>>

\* None => syntax_error!("Unmatched Parentheses!")
OperandNone ==
    /\ Running("procedure_call", "operand")
    /\ ret # NoRet
    /\ OperandArm(ret) = "error"
    /\ UNCHANGED <<lexer, current, lookaheads>>
    /\ Return(Unmatched)
    /\ UNCHANGED <<tokens, built>>

\* OperandSome putting the operand in front of the earlier ones.
OperandSome_Prepend ==
    /\ Running("procedure_call", "operand")
    /\ ret # NoRet
    /\ OperandArm(ret) = "push"
    /\ stack' = <<[Top EXCEPT !.pc = "loop", !.params = <<ret.expr>> \o @]>> \o Tail(stack)
    /\ ret' = NoRet
    /\ UNCHANGED <<tokens, lexer, current, lookaheads, results, returned, built>>

\* Some(subexpr) => subexpr, pushed on params; the loop goes round.
OperandSome ==
    /\ Running("procedure_call", "operand")
    /\ ret # NoRet
    /\ OperandArm(ret) = "push"
    /\ stack' = <<[Top EXCEPT !.pc = "loop", !.params = Append(@, ret.expr)]>> \o Tail(stack)
    /\ ret' = NoRet
    /\ UNCHANGED <<tokens, lexer, current, lookaheads, results, returned, built>>

\* One step of the running parse call.
Step ==
    \/ ParseNumber
    \/ ParseIdentifier
    \/ ParseLeftParen
    \/ ParseCallReturn
    \/ ParseRightParen
    \/ ParseNone
    \/ CallOperator
    \/ OperatorErr
    \/ OperatorNone
    \/ OperatorSome
    \/ LoopClose
    \/ LoopEof
    \/ CallOperand
    \/ OperandErr
    \/ OperandNone
    \/ OperandSome

Next ==
    \/ CallParse
    \/ Step

Spec == Init /\ [][Next]_vars

\* Parser::new over the shorter streams.
LiveInit == Init /\ Len(tokens) <= MaxLiveLen

\* The parser runs to completion once called: no suspension points.
FairSpec == LiveInit /\ [][Next]_vars /\ WF_vars(Step)

(* ------------------- vocabulary of the properties ---------------------- *)
\* The token at index i of the stream, NoToken past either end.
TokAt(i) == IF i \in 1..Len(tokens) THEN tokens[i] ELSE NoToken

\* LeftParens minus RightParens among tokens a..b.
Opened(a, b) ==
    Cardinality({j \in a..b : tokens[j] = LeftParen})
        - Cardinality({j \in a..b : tokens[j] = RightParen})

\* The returns of the top-level parse() calls.
TopLevel == {r \in returned : r.depth = 1}

\* The returns of procedure_call, at any depth.
Calls == {r \in returned : r.fn = "procedure_call"}

(* ------------------------------- C1 ------------------------------------ *)
\* C1: a top-level parse call that consumes the rest of the stream, having
\* consumed more LeftParens than RightParens when the stream runs out,
\* returns Err("Unmatched Parentheses!").
C1_UnterminatedIsError ==
    \A r \in TopLevel :
        (r.end = Len(tokens) /\ r.end > r.start /\ Opened(r.start + 1, r.end) > 0)
            => r.val = Unmatched

(* ------------------------------- C2 ------------------------------------ *)
\* C2 as stated: a procedure call whose LeftParen is immediately followed
\* by RightParen or by end-of-input returns Ok(None).
C2_EmptyOperatorIsNone ==
    \A r \in Calls :
        TokAt(r.start + 2) \in {RightParen, NoToken} => r.val = OkNone

\* C2 amended: followed by end-of-input the call returns Ok(None); followed
\* by RightParen it returns Err("Unmatched Parentheses!").
C2_EmptyOperator ==
    \A r \in Calls :
        /\ TokAt(r.start + 2) = NoToken => r.val = OkNone
        /\ TokAt(r.start + 2) = RightParen => r.val = Unmatched

\* A nested `(` at the very end of the stream has returned Ok(None).
C2_Witness ==
    \E r \in Calls :
        /\ r.depth > 2
        /\ TokAt(r.start + 2) = NoToken
        /\ r.val = OkNone
(* ---------------- the reference reading of a stream -------------------- *)
RECURSIVE Flatten(_), FlattenAll(_)
\* The tokens an expression is written with.
Flatten(e) ==
    IF e.kind = "ProcudureCall"
    THEN <<LeftParen>> \o Flatten(e.operator) \o FlattenAll(e.params) \o <<RightParen>>
    ELSE <<Tok(e.kind, e.text)>>

FlattenAll(es) == IF es = <<>> THEN <<>> ELSE Flatten(Head(es)) \o FlattenAll(Tail(es))

Leaves == {Number("1"), Identifier("+")}

RECURSIVE TreesOfSize(_), ForestsOfSize(_)
\* The expressions written with exactly n tokens.
TreesOfSize(n) ==
    IF n = 1 THEN Leaves
    ELSE IF n < 3 THEN {}
    ELSE {ProcudureCall(Head(f), Tail(f)) : f \in ForestsOfSize(n - 2)}

\* The sequences of expressions written with exactly m tokens in all.
ForestsOfSize(m) ==
    IF m = 0 THEN {<<>>}
    ELSE UNION {{<<t>> \o f : t \in TreesOfSize(k), f \in ForestsOfSize(m - k)} : k \in 1..m}

RefForests == UNION {ForestsOfSize(m) : m \in 0..MaxLen}

\* The well-formed streams, each with the sequence of expressions it spells.
ForestOf == [s \in {FlattenAll(f) : f \in RefForests} |-> CHOOSE f \in RefForests : FlattenAll(f) = s]

WellFormed == tokens \in DOMAIN ForestOf

(* ------------------------------- C3 ------------------------------------ *)
\* C3: on a stream that is exactly one well-formed expression, the first
\* parse call returns Ok(Some(tree)) with tree the reference tree.
C3_SingleExpression ==
    (WellFormed /\ Len(ForestOf[tokens]) = 1 /\ Len(results) >= 1)
        => results[1].val = OkSome(ForestOf[tokens][1])

\* A call whose operator is itself a call, with an operand, has been parsed.
C3_Witness ==
    /\ WellFormed /\ Len(ForestOf[tokens]) = 1 /\ Len(results) >= 1
    /\ LET t == results[1].val.expr
       IN /\ t.kind = "ProcudureCall"
          /\ t.operator.kind = "ProcudureCall"
          /\ Len(t.params) >= 1

(* ------------------------------- C4 ------------------------------------ *)
\* C4: on a stream that is k well-formed expressions one after another, the
\* first k parse calls return them in order and every later call returns
\* Ok(None).
C4_Sequential ==
    WellFormed =>
        \A i \in 1..Len(results) :
            results[i].val = IF i <= Len(ForestOf[tokens])
                             THEN OkSome(ForestOf[tokens][i])
                             ELSE OkNone

\* Two expressions, one of them a call, then Ok(None) on the third call.
C4_Witness ==
    /\ WellFormed /\ Len(ForestOf[tokens]) = 2 /\ Len(results) = 3
    /\ results[2].val.expr.kind = "ProcudureCall"
    /\ results[3].val = OkNone
(* ------------------------------- C5 ------------------------------------ *)
\* C5: whenever a top-level parse call has returned Ok(None), the lookahead
\* is empty and the lexer has no tokens left.
C5_NoneMeansExhausted ==
    (stack = <<>> /\ results # <<>> /\ results[Len(results)].val = OkNone)
        => (current = NoToken /\ lexer = <<>>)

(* ------------------------------- C6 ------------------------------------ *)
\* C6: a top-level parse call entered with RightParen as the lookahead
\* returns Err("Unmatched Parentheses!"), first in the stream or not.
C6_StrayCloser ==
    \A r \in TopLevel : TokAt(r.start + 1) = RightParen => r.val = Unmatched

\* A stray closer right after an expression that an earlier call returned.
C6_Witness ==
    \E i \in 2..Len(results) :
        /\ results[i - 1].val.tag = "OkSome"
        /\ TokAt(results[i].start + 1) = RightParen
        /\ results[i].val = Unmatched

(* ------------------------------- C7 ------------------------------------ *)
\* Tokens a..b open with LeftParen and close with the RightParen matching it.
Balanced(a, b) ==
    /\ TokAt(a) = LeftParen
    /\ TokAt(b) = RightParen
    /\ Opened(a, b) = 0
    /\ \A j \in a..(b - 1) : Opened(a, j) > 0

\* C7: every ProcudureCall node ever constructed spells a region of the
\* stream that runs from a LeftParen to its matching RightParen, and that
\* region has been consumed.
C7_CallIsBalancedRegion ==
    \A b \in built :
        /\ Balanced(b.from, b.to)
        /\ b.to <= Consumed
        /\ Flatten(b.node) = SubSeq(tokens, b.from, b.to)

\* A call node was built inside a top-level parse that then failed.
C7_Witness ==
    \E b \in built : \E r \in TopLevel :
        /\ r.val = Unmatched
        /\ r.start < b.from
        /\ b.to <= r.end

(* ------------------------------- C8 ------------------------------------ *)
\* (a) the stream ended while a list opened in this call was unclosed.
EndedInList(r) == r.endCur = NoToken /\ Opened(r.start + 1, r.end) > 0

\* (b) RightParen where the call was to start, no list open.
StrayCloser(r) == r.endCur = RightParen /\ r.end = r.start

\* RightParen directly after the LeftParen of a list: `( )`.
EmptyList(r) == r.endCur = RightParen /\ r.end > r.start /\ TokAt(r.end) = LeftParen

\* An unrecognized token inside an open list, after some operator was parsed.
UnrecognizedInList(r) ==
    /\ r.endCur.kind = "Other"
    /\ Opened(r.start + 1, r.end) > 0
    /\ \E j \in (r.start + 1)..r.end : tokens[j] # LeftParen

NoParens == \A j \in 1..Len(tokens) : tokens[j] \notin {LeftParen, RightParen}

\* C8 as stated: a top-level parse call returns Err only if (a) or (b); in
\* particular not at a RightParen met while a list is open.
C8_OnlyTwoErrors ==
    \A r \in TopLevel :
        r.val.tag = "Err" => (EndedInList(r) \/ StrayCloser(r))

\* C8 amended: Err only if (a), (b), a RightParen directly after a
\* LeftParen, or an unrecognized token inside an open list whose operator
\* was parsed; and never on a stream without parentheses.
C8_ErrorCauses ==
    \A r \in TopLevel :
        r.val.tag = "Err" =>
            /\ r.val = Unmatched
            /\ EndedInList(r) \/ StrayCloser(r) \/ EmptyList(r) \/ UnrecognizedInList(r)
            /\ ~NoParens

\* An error raised at an unrecognized operand of a nested list.
C8_Witness ==
    \E r \in TopLevel :
        /\ r.val.tag = "Err"
        /\ UnrecognizedInList(r)
        /\ Opened(r.start + 1, r.end) > 1
(* ------------------------------- C9 ------------------------------------ *)
\* C9: every parse call returns, whatever the stream, and each round of
\* the operand loop consumes at least one token.
C9_Terminates ==
    /\ (stack # <<>>) ~> (stack = <<>>)
    /\ [][OperandSome => Consumed > Top.mark]_vars

\* A call on a malformed stream returned after two rounds of the loop
\* and an unrecognized token.
C9_Witness ==
    \E r \in TopLevel :
        /\ r.val = Unmatched
        /\ r.endCur.kind = "Other"
        /\ r.end >= r.start + 4
        /\ Opened(r.start + 1, r.end) = 1

(* ------------------------------- C10 ----------------------------------- *)
\* C10: once a nested call has returned an error, each step returns that
\* same error from the next enclosing frame, consumes no token and builds
\* no expression, until the top-level call has returned it.
C10_ErrorPropagates ==
    [][ret.tag = "Err" =>
            /\ UNCHANGED <<lexer, current, built>>
            /\ stack' = Tail(stack)
            /\ IF stack' = <<>>
               THEN /\ Len(results') = Len(results) + 1
                    /\ results'[Len(results')].val = ret
               ELSE ret' = ret /\ results' = results]_vars

\* An error raised three frames down has come out of the top-level call.
C10_Witness ==
    \E r \in returned : \E t \in TopLevel :
        /\ r.val.tag = "Err"
        /\ r.depth >= 4
        /\ t.val = r.val
        /\ t.start < r.start
        /\ t.end = r.end
(* ------------------------------- C11 ----------------------------------- *)
\* C11: a parse or procedure_call that returns Ok(Some(e)), at any depth,
\* has consumed exactly the tokens e is written with, and leaves as
\* lookahead the token right after them, or none at the end of the stream.
C11_CursorAfterSuccess ==
    \A r \in returned :
        r.val.tag = "OkSome" =>
            /\ Flatten(r.val.expr) = SubSeq(tokens, r.start + 1, r.end)
            /\ r.endCur = TokAt(r.end + 1)

\* A nested call returned with a token after it, and a leaf returned at
\* the very end of the stream.
C11_Witness ==
    /\ \E r \in Calls :
          /\ r.val.tag = "OkSome"
          /\ r.depth >= 4
          /\ r.endCur # NoToken
    /\ \E r \in returned :
          /\ r.val.tag = "OkSome"
          /\ r.end = r.start + 1
          /\ r.endCur = NoToken

(* ------------------------------- C12 ----------------------------------- *)
\* The operator of the procedure_call r has been parsed.
HasOperator(r) ==
    \E o \in returned :
        /\ o.fn = "parse"
        /\ o.depth = r.depth + 1
        /\ o.start = r.start + 1
        /\ o.val.tag = "OkSome"

\* The parse calls procedure_call r made for its operands.
OperandsOf(r) ==
    {n \in returned : /\ n.fn = "parse"
                      /\ n.depth = r.depth + 1
                      /\ n.start > r.start + 1
                      /\ n.start <= r.end}

\* C12: a procedure_call whose operator has been parsed and one of whose
\* operands starts at an unrecognized token, or yields no expression (as a
\* nested list can), returns Err("Unmatched Parentheses!").
C12_UnrecognizedOperand ==
    \A r \in Calls :
        HasOperator(r) =>
            \A n \in OperandsOf(r) :
                (TokAt(n.start + 1).kind = "Other" \/ n.val = OkNone)
                    => r.val = Unmatched

\* An operand that is a nested `(` yielding no expression made the
\* enclosing call fail.
C12_Witness ==
    \E r \in Calls :
        /\ HasOperator(r)
        /\ r.val = Unmatched
        /\ \E n \in OperandsOf(r) :
              /\ n.val = OkNone
              /\ TokAt(n.start + 1) = LeftParen
              /\ n.endCur.kind = "Other"
(* ------------------------------- C13 ----------------------------------- *)
\* C13: a top-level parse call entered with an unrecognized token as the
\* lookahead returns Ok(None) and consumes nothing; every later call
\* returns the same, and no token from there on is ever consumed.
C13_UnrecognizedAtTop ==
    \A i \in 1..Len(results) :
        TokAt(results[i].start + 1).kind = "Other" =>
            /\ results[i].val = OkNone
            /\ results[i].end = results[i].start
            /\ results[i].endCur = TokAt(results[i].start + 1)
            /\ \A j \in i..Len(results) : results[j] = results[i]
            /\ Consumed = results[i].start
            /\ current = TokAt(results[i].start + 1)
            /\ lexer = SubSeq(tokens, results[i].start + 2, Len(tokens))

\* After one expression, two calls stopped at an unrecognized token that
\* has a token behind it.
C13_Witness ==
    /\ Len(results) >= 3
    /\ results[1].val.tag = "OkSome"
    /\ TokAt(results[2].start + 1).kind = "Other"
    /\ results[3].val = OkNone
    /\ lexer # <<>>

(* ------------------------------- C14 ----------------------------------- *)
\* C14: a top-level parse call entered with an empty lookahead (the empty
\* stream included) returns Ok(None) and changes nothing, and an empty
\* lookahead stays empty through every step.
C14_EndOfInputStable ==
    /\ [](\A i \in 1..Len(results) :
            results[i].start >= Len(tokens) =>
                /\ results[i].val = OkNone
                /\ results[i].end = results[i].start
                /\ results[i].endCur = NoToken)
    /\ [][current = NoToken =>
            /\ current' = NoToken
            /\ lexer' = lexer
            /\ lookaheads' = lookaheads]_vars

\* A stream was parsed to its end and two further calls returned Ok(None).
C14_Witness ==
    /\ tokens # <<>>
    /\ Len(results) >= 3
    /\ results[1].val.tag = "OkSome"
    /\ results[2].start = Len(tokens)
    /\ results[3].val = OkNone
    /\ current = NoToken
(* ------------------------------- C15 ----------------------------------- *)
\* C15: the successive values of the lookahead are the tokens of the
\* stream in their order, then the empty lookahead; the current one is the
\* latest of them and the lexer holds exactly the tokens behind it.
C15_ForwardOnce ==
    /\ \A i \in 1..Len(lookaheads) : lookaheads[i] = TokAt(i)
    /\ current = lookaheads[Len(lookaheads)]
    /\ lexer = SubSeq(tokens, Len(lookaheads) + 1, Len(tokens))

\* Several calls have walked a stream of four or more tokens to its end.
C15_Witness ==
    /\ Len(tokens) >= 4
    /\ Len(lookaheads) = Len(tokens) + 1
    /\ Len(results) >= 2
    /\ results[2].end > results[2].start

(* ------------------------------- C18 ----------------------------------- *)
\* C18: the lexer has been polled once by Parser::new and once per token
\* consumed, never more often than the stream has tokens plus one, and
\* every poll after the first happens while the lookahead is non-empty.
C18_NoPollAfterExhaustion ==
    /\ [](/\ Len(lookaheads) = 1 + Consumed
          /\ Len(lookaheads) <= Len(tokens) + 1)
    /\ [][lookaheads' # lookaheads => current # NoToken]_vars

\* The lexer reported exhaustion while a list was being closed, and parse
\* was called again afterwards.
C18_Witness ==
    /\ built # {}
    /\ lookaheads[Len(lookaheads)] = NoToken
    /\ \E i \in 2..Len(results) :
          /\ results[i].start = Len(tokens)
          /\ TokAt(results[i - 1].end) = RightParen
(* ------------------------------- C16 ----------------------------------- *)
\* The procedure_call frames that have advanced past their LeftParen.
ActiveCalls ==
    Cardinality({k \in 1..Len(stack) :
                    stack[k].fn = "procedure_call" /\ stack[k].pc # "advance"})

\* The number of tokens consumed when the running top-level call began.
Base == stack[Len(stack)].start

MaxOf(S) == CHOOSE m \in S : \A x \in S : x <= m

RECURSIVE Nesting(_)
\* How deep the calls of an expression nest.
Nesting(e) ==
    IF e.kind = "ProcudureCall"
    THEN 1 + MaxOf({Nesting(e.operator)} \cup {Nesting(e.params[k]) : k \in 1..Len(e.params)})
    ELSE 0

\* The deepest procedure_call recursion reached inside the top-level call t.
MaxDepth(t) ==
    MaxOf({0} \cup {r.depth \div 2 : r \in {c \in Calls : t.start <= c.start /\ c.end <= t.end}})

\* C16 as stated: at every point during a parse call the number of active
\* procedure_call frames is the number of LeftParens minus RightParens
\* consumed since the top-level call began.
C16_DepthIsNesting ==
    stack # <<>> => ActiveCalls = Opened(Base + 1, Consumed)

\* C16 amended: the same, except while an error or a "no expression"
\* result of a nested call is being returned; and a top-level call that
\* returns Ok(Some(e)) recursed exactly as deep as e nests.
C16_DepthTracksNesting ==
    /\ (stack # <<>> /\ ret.tag \notin {"Err", "OkNone"})
            => ActiveCalls = Opened(Base + 1, Consumed)
    /\ \A t \in TopLevel :
            t.val.tag = "OkSome" => MaxDepth(t) = Nesting(t.val.expr)

\* An expression nesting two deep has been returned, and the next call is
\* inside a list.
C16_Witness ==
    /\ \E t \in TopLevel : t.val.tag = "OkSome" /\ Nesting(t.val.expr) = 2 /\ MaxDepth(t) = 2
    /\ stack # <<>>
    /\ ret = NoRet
    /\ ActiveCalls = 1

(* ------------------------------- C17 ----------------------------------- *)
\* C17: a parse entered with RightParen as the lookahead, at any depth,
\* returns the error and consumes nothing; at top level every later call
\* does the same at the same token.
C17_StrayCloserStays ==
    /\ \A r \in returned :
          (r.fn = "parse" /\ TokAt(r.start + 1) = RightParen) =>
              /\ r.val = Unmatched
              /\ r.end = r.start
              /\ r.endCur = RightParen
    /\ \A i \in 1..Len(results) :
          (results[i].val.tag = "Err" /\ results[i].endCur = RightParen) =>
              /\ \A j \in (i + 1)..Len(results) :
                    /\ results[j].val = results[i].val
                    /\ results[j].start = results[i].end
                    /\ results[j].end = results[i].end
              /\ Consumed = results[i].end
              /\ current = RightParen

\* A call failed at the RightParen of `( )` and the next call failed on
\* that same token.
C17_Witness ==
    \E i \in 2..Len(results) :
        /\ results[i - 1].val = Unmatched
        /\ results[i - 1].end > results[i - 1].start
        /\ results[i].val = Unmatched
        /\ results[i].end = results[i].start
        /\ TokAt(results[i].start + 1) = RightParen
        /\ lexer # <<>>
====
